---- MODULE Spec2Model ----
(***************************************************************************)
(* A model of libfork's lazy_pool (a work-stealing pool whose workers      *)
(* sleep when idle) and of the thread-local worker_init / finalize pair.   *)
(*                                                                         *)
(*   include/libfork/schedule/lazy_pool.hpp   lazy_context, lazy_pool      *)
(*   include/libfork/core/ext/tls.hpp         worker_init, finalize        *)
(*                                                                         *)
(* The event count (event_count.hpp), the submission queue and the deque   *)
(* (contexts.hpp) and resume() are not part of the sources at hand; they   *)
(* are modelled from their contracts in spec.md, sections 4.A - 4.D.       *)
(***************************************************************************)
EXTENDS Integers, Sequences, FiniteSets, TLC

\* ------------------------------------------------------------------ bounds

\* Number of worker threads of the pool (the constructor's n).
NWorkers == 2

\* Number of handles the external thread passes to schedule.
MaxHandles == 2

\* Number of returns of notifier.wait that no notify caused.
MaxSpurious == 1

\* Number of worker_init / finalize calls a thread makes.
MaxTlsCalls == 6

Workers == 1..NWorkers

\* Handles passed to schedule; handle h may fork one child, Child(h).
Handles == 1..MaxHandles

Child(h) == h + MaxHandles

Tasks == 1..(2 * MaxHandles)

\* ------------------------------------------------- the 64-bit counter word

\* A std::uint64_t as four 16-bit limbs, least significant first (TLC's
\* integers are 32-bit, so the word cannot be one number).
Base == 2 ^ 16

Word == [1..4 -> 0..(Base - 1)]

Zero64 == <<0, 0, 0, 0>>

\* x + y modulo 2^64.
Add64(x, y) ==
  LET s1 == x[1] + y[1]
      s2 == x[2] + y[2] + (s1 \div Base)
      s3 == x[3] + y[3] + (s2 \div Base)
      s4 == x[4] + y[4] + (s3 \div Base)
  IN  <<s1 % Base, s2 % Base, s3 % Base, s4 % Base>>

\* The bitwise complement of x.
Not64(x) == [i \in 1..4 |-> (Base - 1) - x[i]]

\* x - y modulo 2^64.
Sub64(x, y) ==
  LET d1 == x[1] - y[1]
      d2 == x[2] - y[2] - (IF d1 < 0 THEN 1 ELSE 0)
      d3 == x[3] - y[3] - (IF d2 < 0 THEN 1 ELSE 0)
      d4 == x[4] - y[4] - (IF d3 < 0 THEN 1 ELSE 0)
  IN  <<(d1 + Base) % Base, (d2 + Base) % Base, (d3 + Base) % Base,
        (d4 + Base) % Base>>

\* Bit i of limb a.
Bit(a, i) == (a \div (2 ^ i)) % 2

\* The bitwise and of two limbs, from bit i up.
RECURSIVE AndLimb(_, _, _)
AndLimb(a, b, i) ==
  IF i = 16 THEN 0
  ELSE Bit(a, i) * Bit(b, i) * (2 ^ i) + AndLimb(a, b, i + 1)

And64(x, y) == [i \in 1..4 |-> AndLimb(x[i], y[i], 0)]

\* x << 32U.
Shl32(x) == <<0, 0, x[1], x[2]>>

k_thieve == <<1, 0, 0, 0>>

k_active == Shl32(k_thieve)

k_thieve_mask == Sub64(k_active, <<1, 0, 0, 0>>)

k_active_mask == Not64(k_thieve_mask)

\* Mutant of k_promote: the operands the wrong way round.
k_promote_swapped == Sub64(k_thieve, k_active)

\* k_active - k_thieve: one more active worker and one fewer thief.
k_promote == Sub64(k_active, k_thieve)

\* The word with the number n < 2^16 in its low limb.
Small(n) == <<n, 0, 0, 0>>

\* The elements of a sequence, and how often x occurs in it.
Range(q) == {q[i] : i \in DOMAIN q}

Count(q, x) == Cardinality({i \in DOMAIN q : q[i] = x})

\* ---------------------------------------------------------------- state

VARIABLES
  dual_count,   \* remote_atomics::dual_count
  stop,         \* remote_atomics::stop
  woken,        \* the workers blocked in wait that a notify has woken
  pc,           \* each worker's position in lazy_context::work
  stale,        \* each worker: the epoch has left the key of its prepare_wait
  intent,       \* each worker: a prepare_wait not yet cancelled or consumed
  cur,          \* each worker: the handles its thief_round_trip has left
  forked,       \* the handles whose resume has pushed its child
  inbox,        \* each worker's submission queue
  deque,        \* each worker's work-stealing deque
  resumed,      \* how many times each task has been resumed
  done,         \* the tasks whose resume has returned
  scheduled,    \* how many handles have been passed to schedule
  subPc,        \* the external thread's position in schedule/submit
  subTarget,    \* the worker whose context schedule picked (0: none)
  cleanPc,      \* the owner's position in ~lazy_pool / clean_up
  early,        \* clean_up began before a scheduled handle had completed
  spurious,     \* how many waits have returned without a notify
  cold,         \* unfinished handles scheduled while all workers were parked
  has_fibre,      \* impl::tls::has_fibre
  thread_fibre,   \* impl::tls::thread_fibre: "empty" or "live"
  has_context,    \* impl::tls::has_context
  thread_context, \* impl::tls::thread_context: "empty" or "live"
  tlsOp,          \* the last call on the thread and its argument
  tlsRet,         \* how that call ended
  tlsEvents,      \* the constructions and destructions that call performed
  tlsBefore,      \* the last call that had returned normally before it
  tlsLast,        \* the last call that has returned normally
  tlsUB,          \* a destroy() of an object that was not alive has happened
  tlsCalls        \* how many calls the thread has made

poolVars == <<dual_count, stop, woken, pc, stale, intent, cur, forked, inbox,
              deque, resumed, done, scheduled, subPc, subTarget, cleanPc,
              early, spurious, cold>>

tlsVars == <<has_fibre, thread_fibre, has_context, thread_context, tlsOp,
             tlsRet, tlsEvents, tlsBefore, tlsLast, tlsUB, tlsCalls>>

vars == <<poolVars, tlsVars>>

\* The T lane and the A lane of the counter, as words.
Thieves(d) == And64(d, k_thieve_mask)

Actives(d) == And64(d, k_active_mask)

Init ==
  /\ dual_count = Zero64
  /\ stop = FALSE
  /\ woken = {}
  /\ pc = [w \in Workers |-> "wake_up"]
  /\ stale = [w \in Workers |-> FALSE]
  /\ intent = [w \in Workers |-> FALSE]
  /\ cur = [w \in Workers |-> <<>>]
  /\ forked = {}
  /\ inbox = [w \in Workers |-> <<>>]
  /\ deque = [w \in Workers |-> <<>>]
  /\ resumed = [t \in Tasks |-> 0]
  /\ done = {}
  /\ scheduled = 0
  /\ subPc = "idle"
  /\ subTarget = 0
  /\ cleanPc = "alive"
  /\ early = FALSE
  /\ spurious = 0
  /\ cold = {}
  /\ has_fibre = FALSE
  /\ thread_fibre = "empty"
  /\ has_context = FALSE
  /\ thread_context = "empty"
  /\ tlsOp = <<"none">>
  /\ tlsRet = "none"
  /\ tlsEvents = <<>>
  /\ tlsBefore = "none"
  /\ tlsLast = "none"
  /\ tlsUB = FALSE
  /\ tlsCalls = 0

\* ------------------------------------------------------------- notifier

\* The event count keeps an epoch that every notify advances; prepare_wait
\* returns the current epoch as the key, and wait(key) blocks only while the
\* epoch still equals the key.  Of epoch and keys the model keeps what wait
\* reads: for each worker, whether the epoch has left its key.

\* The workers that hold a key: past prepare_wait, not yet inside wait.
Holding ==
  {w \in Workers : pc[w] \in {"recheck", "stop_check", "park_dec", "wait"}}

\* The workers blocked inside wait that no notify has woken yet.
Blocked == {w \in Workers : pc[w] = "parked" /\ w \notin woken}

\* notify_all: a new epoch, and every blocked waiter is woken.
NotifyAll ==
  /\ stale' = [w \in Workers |-> stale[w] \/ w \in Holding]
  /\ woken' = woken \cup Blocked

\* notify_one: a new epoch, and one blocked waiter (if any) is woken.
NotifyOne ==
  /\ stale' = [w \in Workers |-> stale[w] \/ w \in Holding]
  /\ IF Blocked = {} THEN woken' = woken
     ELSE \E v \in Blocked : woken' = woken \cup {v}

\* --------------------------------------------------------------- worker

\* Mutants of MustStayAwake: the check is left out, or never lets go.
NeverStayAwake(prev) == FALSE

AlwaysStayAwake(prev) == TRUE

\* Whether the worker whose park decrement read prev must stay awake:
\* prev_thieves == 1 && prev_actives != 0.
MustStayAwake(prev) ==
  Thieves(prev) = Small(1) /\ Actives(prev) # Zero64

\* Mutant of StayAwakeTarget: goto continue_as_thief, without the increment.
StayAwakeContinue == "fast_sub"

\* Where a worker that must stay awake goes: goto wake_up.
StayAwakeTarget == "wake_up"

\* Mutant of RestOfChain: only the head of the chain is resumed.
DropChain(chain) == <<>>

\* for_each over the intruded chain: what is left once its head has been
\* resumed.
RestOfChain(chain) == Tail(chain)

\* Mutants of LastThief: the promotion never, or always, takes itself for
\* the last thief's.
NeverLastThief(prev) == FALSE

AlwaysLastThief(prev) == TRUE

\* Whether the promotion that read prev was the last thief's:
\* prev_thieves == 1.
LastThief(prev) == Thieves(prev) = Small(1)

\* wake_up: dual_count.fetch_add(k_thieve, release).
WakeUp(w) ==
  /\ pc[w] = "wake_up"
  /\ dual_count' = Add64(dual_count, k_thieve)
  /\ pc' = [pc EXCEPT ![w] = "fast_sub"]
  /\ UNCHANGED <<stop, woken, stale, intent, cur, forked, inbox, deque,
                 resumed, done, scheduled, subPc, subTarget, cleanPc, early,
                 spurious, cold, tlsVars>>

\* continue_as_thief: try_get_submitted on the fast path.
FastSubmitted(w) ==
  /\ pc[w] = "fast_sub"
  /\ IF inbox[w] # <<>>
     THEN /\ cur' = [cur EXCEPT ![w] = inbox[w]]
          /\ inbox' = [inbox EXCEPT ![w] = <<>>]
          /\ pc' = [pc EXCEPT ![w] = "promote"]
     ELSE /\ pc' = [pc EXCEPT ![w] = "fast_steal"]
          /\ UNCHANGED <<cur, inbox>>
  /\ UNCHANGED <<dual_count, stop, woken, stale, intent, forked, deque,
                 resumed, done, scheduled, subPc, subTarget, cleanPc, early,
                 spurious, cold, tlsVars>>

\* try_steal succeeds: the oldest task of a peer's deque.
StealHit(w) ==
  /\ pc[w] = "fast_steal"
  /\ \E v \in Workers \ {w} :
       /\ deque[v] # <<>>
       /\ cur' = [cur EXCEPT ![w] = <<Head(deque[v])>>]
       /\ deque' = [deque EXCEPT ![v] = Tail(deque[v])]
  /\ pc' = [pc EXCEPT ![w] = "promote"]
  /\ UNCHANGED <<dual_count, stop, woken, stale, intent, forked, inbox,
                 resumed, done, scheduled, subPc, subTarget, cleanPc, early,
                 spurious, cold, tlsVars>>

\* try_steal returns null: every peer's deque was empty, or every steal
\* aborted.
StealMiss(w) ==
  /\ pc[w] = "fast_steal"
  /\ pc' = [pc EXCEPT ![w] = "prepare"]
  /\ UNCHANGED <<dual_count, stop, woken, stale, intent, cur, forked, inbox,
                 deque, resumed, done, scheduled, subPc, subTarget, cleanPc,
                 early, spurious, cold, tlsVars>>

\* thief_round_trip: the promotion, fetch_add(k_active - k_thieve).
Promote(w) ==
  /\ pc[w] = "promote"
  /\ dual_count' = Add64(dual_count, k_promote)
  /\ pc' = [pc EXCEPT ![w] =
              IF LastThief(dual_count) THEN "rt_notify" ELSE "resume"]
  /\ UNCHANGED <<stop, woken, stale, intent, cur, forked, inbox, deque,
                 resumed, done, scheduled, subPc, subTarget, cleanPc, early,
                 spurious, cold, tlsVars>>

\* thief_round_trip: the last thief wakes someone up.
RoundTripNotify(w) ==
  /\ pc[w] = "rt_notify"
  /\ NotifyOne
  /\ pc' = [pc EXCEPT ![w] = "resume"]
  /\ UNCHANGED <<dual_count, stop, intent, cur, forked, inbox, deque, resumed,
                 done, scheduled, subPc, subTarget, cleanPc, early, spurious,
                 cold, tlsVars>>

\* Mutant of Resume: the chain is walked from its far end.
ResumeLast(w) ==
  /\ pc[w] = "resume"
  /\ cur[w] # <<>>
  /\ resumed' = [resumed EXCEPT ![cur[w][Len(cur[w])]] = @ + 1]
  /\ pc' = [pc EXCEPT ![w] = "running"]
  /\ UNCHANGED <<dual_count, stop, woken, stale, intent, cur, forked, inbox,
                 deque, done, scheduled, subPc, subTarget, cleanPc, early,
                 spurious, cold, tlsVars>>

\* thief_round_trip: resume the next handle of the chain.
Resume(w) ==
  /\ pc[w] = "resume"
  /\ cur[w] # <<>>
  /\ resumed' = [resumed EXCEPT ![Head(cur[w])] = @ + 1]
  /\ pc' = [pc EXCEPT ![w] = "running"]
  /\ UNCHANGED <<dual_count, stop, woken, stale, intent, cur, forked, inbox,
                 deque, done, scheduled, subPc, subTarget, cleanPc, early,
                 spurious, cold, tlsVars>>

\* Inside resume: the task forks, pushing its child onto the worker's deque.
Fork(w) ==
  /\ pc[w] = "running"
  /\ Head(cur[w]) \in Handles \ forked
  /\ forked' = forked \cup {Head(cur[w])}
  /\ deque' = [deque EXCEPT ![w] = Append(@, Child(Head(cur[w])))]
  /\ UNCHANGED <<dual_count, stop, woken, pc, stale, intent, cur, inbox,
                 resumed, done, scheduled, subPc, subTarget, cleanPc, early,
                 spurious, cold, tlsVars>>

\* Inside resume: the worker pops the newest task of its own deque and runs
\* it.
PopOwn(w) ==
  /\ pc[w] = "running"
  /\ deque[w] # <<>>
  /\ LET t == deque[w][Len(deque[w])]
     IN  /\ resumed' = [resumed EXCEPT ![t] = @ + 1]
         /\ done' = done \cup {t}
  /\ deque' = [deque EXCEPT ![w] = SubSeq(@, 1, Len(@) - 1)]
  /\ UNCHANGED <<dual_count, stop, woken, pc, stale, intent, cur, forked,
                 inbox, scheduled, subPc, subTarget, cleanPc, early, spurious,
                 cold, tlsVars>>

\* resume returns: the task has run to completion.
Finish(w) ==
  /\ pc[w] = "running"
  /\ deque[w] = <<>>
  /\ done' = done \cup {Head(cur[w])}
  /\ cold' = cold \ {Head(cur[w])}
  /\ cur' = [cur EXCEPT ![w] = RestOfChain(@)]
  /\ pc' = [pc EXCEPT ![w] = "resume"]
  /\ UNCHANGED <<dual_count, stop, woken, stale, intent, forked, inbox, deque,
                 resumed, scheduled, subPc, subTarget, cleanPc, early,
                 spurious, tlsVars>>

\* thief_round_trip: the demotion, fetch_sub(k_active - k_thieve).
Demote(w) ==
  /\ pc[w] = "resume"
  /\ cur[w] = <<>>
  /\ dual_count' = Sub64(dual_count, k_promote)
  /\ pc' = [pc EXCEPT ![w] = "fast_sub"]
  /\ UNCHANGED <<stop, woken, stale, intent, cur, forked, inbox, deque,
                 resumed, done, scheduled, subPc, subTarget, cleanPc, early,
                 spurious, cold, tlsVars>>

\* key = notifier.prepare_wait().
PrepareWait(w) ==
  /\ pc[w] = "prepare"
  /\ stale' = [stale EXCEPT ![w] = FALSE]
  /\ intent' = [intent EXCEPT ![w] = TRUE]
  /\ pc' = [pc EXCEPT ![w] = "recheck"]
  /\ UNCHANGED <<dual_count, stop, woken, cur, forked, inbox, deque, resumed,
                 done, scheduled, subPc, subTarget, cleanPc, early, spurious,
                 cold, tlsVars>>

\* Mutant of Recheck: the submission queue is not looked at again.
RecheckSkipped(w) ==
  /\ pc[w] = "recheck"
  /\ pc' = [pc EXCEPT ![w] = "stop_check"]
  /\ UNCHANGED <<cur, inbox, intent, stale>>
  /\ UNCHANGED <<dual_count, stop, woken, forked, deque, resumed, done,
                 scheduled, subPc, subTarget, cleanPc, early, spurious, cold,
                 tlsVars>>

\* The re-check of the submission queue; work found: cancel_wait and run it.
Recheck(w) ==
  /\ pc[w] = "recheck"
  /\ IF inbox[w] # <<>>
     THEN /\ cur' = [cur EXCEPT ![w] = inbox[w]]
          /\ inbox' = [inbox EXCEPT ![w] = <<>>]
          /\ intent' = [intent EXCEPT ![w] = FALSE]
          /\ stale' = [stale EXCEPT ![w] = FALSE]
          /\ pc' = [pc EXCEPT ![w] = "promote"]
     ELSE /\ pc' = [pc EXCEPT ![w] = "stop_check"]
          /\ UNCHANGED <<cur, inbox, intent, stale>>
  /\ UNCHANGED <<dual_count, stop, woken, forked, deque, resumed, done,
                 scheduled, subPc, subTarget, cleanPc, early, spurious, cold,
                 tlsVars>>

\* Mutant of StopCheck: the exiting worker takes itself out of the T lane.
StopCheckDecrement(w) ==
  /\ pc[w] = "stop_check"
  /\ IF stop
     THEN /\ intent' = [intent EXCEPT ![w] = FALSE]
          /\ stale' = [stale EXCEPT ![w] = FALSE]
          /\ dual_count' = Sub64(dual_count, k_thieve)
          /\ pc' = [pc EXCEPT ![w] = "exited"]
     ELSE /\ pc' = [pc EXCEPT ![w] = "park_dec"]
          /\ UNCHANGED <<intent, stale, dual_count>>
  /\ UNCHANGED <<stop, woken, cur, forked, inbox, deque, resumed,
                 done, scheduled, subPc, subTarget, cleanPc, early, spurious,
                 cold, tlsVars>>

\* Mutant of StopCheck: the flag is not honoured.
StopCheckIgnored(w) ==
  /\ pc[w] = "stop_check"
  /\ pc' = [pc EXCEPT ![w] = "park_dec"]
  /\ UNCHANGED <<intent, stale>>
  /\ UNCHANGED <<dual_count, stop, woken, cur, forked, inbox, deque, resumed,
                 done, scheduled, subPc, subTarget, cleanPc, early, spurious,
                 cold, tlsVars>>

\* stop.test(acquire); set: cancel_wait and return, leaving a ghost thief.
StopCheck(w) ==
  /\ pc[w] = "stop_check"
  /\ IF stop
     THEN /\ intent' = [intent EXCEPT ![w] = FALSE]
          /\ stale' = [stale EXCEPT ![w] = FALSE]
          /\ pc' = [pc EXCEPT ![w] = "exited"]
     ELSE /\ pc' = [pc EXCEPT ![w] = "park_dec"]
          /\ UNCHANGED <<intent, stale>>
  /\ UNCHANGED <<dual_count, stop, woken, cur, forked, inbox, deque, resumed,
                 done, scheduled, subPc, subTarget, cleanPc, early, spurious,
                 cold, tlsVars>>

\* prev_dual = dual_count.fetch_sub(k_thieve, acq_rel), then sleep or not.
ParkDecrement(w) ==
  /\ pc[w] = "park_dec"
  /\ dual_count' = Sub64(dual_count, k_thieve)
  /\ IF MustStayAwake(dual_count)
     THEN /\ pc' = [pc EXCEPT ![w] = StayAwakeTarget]
          /\ stale' = [stale EXCEPT ![w] = FALSE]
     ELSE /\ pc' = [pc EXCEPT ![w] = "wait"]
          /\ stale' = stale
  /\ UNCHANGED <<stop, woken, intent, cur, forked, inbox, deque, resumed,
                 done, scheduled, subPc, subTarget, cleanPc, early, spurious,
                 cold, tlsVars>>

\* notifier.wait(key): returns at once when the epoch has left the key, else
\* blocks.
Wait(w) ==
  /\ pc[w] = "wait"
  /\ IF stale[w]
     THEN /\ pc' = [pc EXCEPT ![w] = "wake_up"]
          /\ intent' = [intent EXCEPT ![w] = FALSE]
          /\ stale' = [stale EXCEPT ![w] = FALSE]
     ELSE /\ pc' = [pc EXCEPT ![w] = "parked"]
          /\ UNCHANGED <<intent, stale>>
  /\ UNCHANGED <<dual_count, stop, woken, cur, forked, inbox, deque, resumed,
                 done, scheduled, subPc, subTarget, cleanPc, early, spurious,
                 cold, tlsVars>>

\* notifier.wait(key) returns to a woken waiter.
WaitReturn(w) ==
  /\ pc[w] = "parked"
  /\ w \in woken
  /\ woken' = woken \ {w}
  /\ pc' = [pc EXCEPT ![w] = "wake_up"]
  /\ intent' = [intent EXCEPT ![w] = FALSE]
  /\ stale' = [stale EXCEPT ![w] = FALSE]
  /\ UNCHANGED <<dual_count, stop, cur, forked, inbox, deque, resumed, done,
                 scheduled, subPc, subTarget, cleanPc, early, spurious, cold,
                 tlsVars>>

\* notifier.wait(key) returns spuriously.
WaitSpurious(w) ==
  /\ pc[w] = "parked"
  /\ w \notin woken
  /\ spurious < MaxSpurious
  /\ spurious' = spurious + 1
  /\ pc' = [pc EXCEPT ![w] = "wake_up"]
  /\ intent' = [intent EXCEPT ![w] = FALSE]
  /\ stale' = [stale EXCEPT ![w] = FALSE]
  /\ UNCHANGED <<dual_count, stop, woken, cur, forked, inbox, deque, resumed,
                 done, scheduled, subPc, subTarget, cleanPc, early, cold,
                 tlsVars>>

\* One step of worker w's thread in lazy_context::work.
Work(w) ==
  \/ WakeUp(w)
  \/ FastSubmitted(w)
  \/ StealHit(w)
  \/ StealMiss(w)
  \/ Promote(w)
  \/ RoundTripNotify(w)
  \/ Resume(w)
  \/ Fork(w)
  \/ PopOwn(w)
  \/ Finish(w)
  \/ Demote(w)
  \/ PrepareWait(w)
  \/ Recheck(w)
  \/ StopCheck(w)
  \/ ParkDecrement(w)
  \/ Wait(w)
  \/ WaitReturn(w)
  \/ WaitSpurious(w)

\* ----------------------------------------------------------------- pool

\* The chain of the next n handles.
Batch(n) == [i \in 1..n |-> scheduled + i]

\* schedule(node): m_contexts[m_dist(m_rng)]->submit(node), up to the
\* enqueue of numa_worker_context::submit.
Schedule ==
  /\ subPc = "idle"
  /\ cleanPc = "alive"
  /\ \E k \in Workers, n \in 1..(MaxHandles - scheduled) :
       /\ inbox' = [inbox EXCEPT ![k] = @ \o Batch(n)]
       /\ scheduled' = scheduled + n
       /\ subTarget' = k
       /\ IF \A w \in Workers : pc[w] = "parked" /\ w \notin woken
          THEN cold' = cold \cup Range(Batch(n))
          ELSE cold' = cold
  /\ subPc' = "notify"
  /\ UNCHANGED <<dual_count, stop, woken, pc, stale, intent, cur, forked,
                 deque, resumed, done, cleanPc, early, spurious, tlsVars>>

\* Mutant of SubmitNotify: submit returns without the notify_all.
SubmitNoNotify ==
  /\ subPc = "notify"
  /\ subPc' = "idle"
  /\ subTarget' = 0
  /\ UNCHANGED <<woken, stale>>
  /\ UNCHANGED <<dual_count, stop, pc, intent, cur, forked, inbox, deque,
                 resumed, done, scheduled, cleanPc, early, spurious, cold,
                 tlsVars>>

\* submit: m_atomics->notifier.notify_all().
SubmitNotify ==
  /\ subPc = "notify"
  /\ NotifyAll
  /\ subPc' = "idle"
  /\ subTarget' = 0
  /\ UNCHANGED <<dual_count, stop, pc, intent, cur, forked, inbox, deque,
                 resumed, done, scheduled, cleanPc, early, spurious, cold,
                 tlsVars>>

\* clean_up: stop.test_and_set(release).
CleanUpStop ==
  /\ cleanPc = "alive"
  /\ subPc = "idle"
  /\ stop' = TRUE
  /\ early' = ((1..scheduled) \ done # {})
  /\ cleanPc' = "notify"
  /\ UNCHANGED <<dual_count, woken, pc, stale, intent, cur, forked, inbox,
                 deque, resumed, done, scheduled, subPc, subTarget, spurious,
                 cold, tlsVars>>

\* Mutant of CleanUpNotify: clean_up goes on to join without the notify_all.
CleanUpNoNotify ==
  /\ cleanPc = "notify"
  /\ cleanPc' = "join"
  /\ UNCHANGED <<woken, stale>>
  /\ UNCHANGED <<dual_count, stop, pc, intent, cur, forked, inbox, deque,
                 resumed, done, scheduled, subPc, subTarget, early, spurious,
                 cold, tlsVars>>

\* clean_up: notifier.notify_all().
CleanUpNotify ==
  /\ cleanPc = "notify"
  /\ NotifyAll
  /\ cleanPc' = "join"
  /\ UNCHANGED <<dual_count, stop, pc, intent, cur, forked, inbox, deque,
                 resumed, done, scheduled, subPc, subTarget, early, spurious,
                 cold, tlsVars>>

\* clean_up: every worker.join() has returned.
CleanUpJoin ==
  /\ cleanPc = "join"
  /\ \A w \in Workers : pc[w] = "exited"
  /\ cleanPc' = "done"
  /\ UNCHANGED <<dual_count, stop, woken, pc, stale, intent, cur, forked,
                 inbox, deque, resumed, done, scheduled, subPc, subTarget,
                 early, spurious, cold, tlsVars>>

\* ------------------------------------------------- thread-local state

\* The calls a thread makes on its thread-local variables (tls.hpp); an
\* embedder's thread may make them in any order.

\* Mutant of AlreadyInitialized: the guard is left out.
NeverInitialized == FALSE

\* worker_init's guard: has_context && has_fibre.
AlreadyInitialized == has_context /\ has_fibre

\* finalize's second guard: !has_context || !has_fibre.
NotInitialized == ~has_context \/ ~has_fibre

\* worker_init(notify); fibreThrows: the fibre's constructor throws.
WorkerInit(fibreThrows) ==
  /\ tlsRet # "crashed"
  /\ tlsCalls < MaxTlsCalls
  /\ tlsCalls' = tlsCalls + 1
  /\ tlsOp' = <<"worker_init", fibreThrows>>
  /\ tlsBefore' = tlsLast
  /\ IF AlreadyInitialized
     THEN \* LF_THROW(std::runtime_error("Worker already initialized"))
          /\ tlsRet' = "runtime_error"
          /\ tlsEvents' = <<>>
          /\ UNCHANGED <<has_fibre, thread_fibre, has_context, thread_context,
                         tlsLast, tlsUB>>
     ELSE \* thread_context.construct, then thread_fibre.construct inside
          \* LF_TRY; the LF_CATCH_ALL block destroys the context and falls
          \* through to the assignments and the return.
          /\ thread_context' = IF fibreThrows THEN "empty" ELSE "live"
          /\ thread_fibre' = IF fibreThrows THEN thread_fibre ELSE "live"
          /\ tlsEvents' =
               IF fibreThrows
               THEN <<"construct context", "fibre throws", "destroy context">>
               ELSE <<"construct context", "construct fibre">>
          /\ has_fibre' = TRUE
          /\ has_context' = TRUE
          /\ tlsRet' = "context"
          /\ tlsLast' = "worker_init"
          /\ tlsUB' = tlsUB
  /\ UNCHANGED poolVars

\* What finalize destroys once its checks have passed, in order.
FinalizeOrder == <<"destroy context", "destroy fibre">>

\* finalize(worker); own: worker is the thread's thread_context.data().
Finalize(own) ==
  /\ tlsRet # "crashed"
  /\ tlsCalls < MaxTlsCalls
  /\ tlsCalls' = tlsCalls + 1
  /\ tlsOp' = <<"finalize", own>>
  /\ tlsBefore' = tlsLast
  /\ IF ~own \/ NotInitialized
     THEN \* LF_THROW(std::runtime_error(...)), either of the two
          /\ tlsRet' = "runtime_error"
          /\ tlsEvents' = <<>>
          /\ UNCHANGED <<has_fibre, thread_fibre, has_context, thread_context,
                         tlsLast, tlsUB>>
     ELSE /\ tlsEvents' = FinalizeOrder
          /\ IF thread_context = "live" /\ thread_fibre = "live"
             THEN /\ tlsRet' = "void"
                  /\ tlsUB' = tlsUB
             ELSE \* destroy() of an object that is not alive is undefined:
                  \* the call may return as if nothing happened, or crash.
                  /\ tlsRet' \in {"void", "crashed"}
                  /\ tlsUB' = TRUE
          /\ thread_context' = "empty"
          /\ thread_fibre' = "empty"
          /\ has_fibre' = FALSE
          /\ has_context' = FALSE
          /\ tlsLast' = IF tlsRet' = "void" THEN "finalize" ELSE tlsLast
  /\ UNCHANGED poolVars

TlsNext ==
  \/ \E fibreThrows \in BOOLEAN : WorkerInit(fibreThrows)
  \/ \E own \in BOOLEAN : Finalize(own)

TlsSpec == Init /\ [][TlsNext]_vars

Next ==
  \/ \E w \in Workers : Work(w)
  \/ Schedule
  \/ SubmitNotify
  \/ CleanUpStop
  \/ CleanUpNotify
  \/ CleanUpJoin

Spec == Init /\ [][Next]_vars

\* The scheduling the threads get: every worker thread, the submitting thread
\* inside submit and the owner inside clean_up keep running; nobody has to
\* call schedule or destroy the pool, and no wait has to return spuriously.
Fairness ==
  /\ \A w \in Workers : WF_vars(Work(w) /\ spurious' = spurious)
  /\ WF_vars(SubmitNotify)
  /\ WF_vars(CleanUpNotify)
  /\ WF_vars(CleanUpJoin)

FairSpec == Init /\ [][Next]_vars /\ Fairness

\* The same scheduling without the assumption that tasks terminate: a worker
\* inside resume may stay there for ever.
SearchFairness ==
  /\ \A w \in Workers :
       WF_vars(Work(w) /\ pc[w] # "running" /\ spurious' = spurious)
  /\ WF_vars(SubmitNotify)
  /\ WF_vars(CleanUpNotify)
  /\ WF_vars(CleanUpJoin)

SearchFairSpec == Init /\ [][Next]_vars /\ SearchFairness

\* ------------------------------------------------------- derived notions

\* The lanes as numbers (each below 2^16 whenever LanesSmall holds).
T == dual_count[1]

A == dual_count[3]

LanesSmall == dual_count[2] = 0 /\ dual_count[4] = 0

\* The implicit count of sleepers.
S == NWorkers - T - A

\* The scheduler states of section 4.F.
Thieving(w) ==
  pc[w] \in {"fast_sub", "fast_steal", "promote", "prepare", "recheck",
             "stop_check", "park_dec"}

Active(w) == pc[w] \in {"rt_notify", "resume", "running"}

Parked(w) == pc[w] = "parked"

Exited(w) == pc[w] = "exited"

\* The central invariant as the source states it.
I1 == A > 0 => (T >= 1 \/ S = 0)

\* A worker that is about to restore the invariant: it is on its way to the
\* increment of wake_up (also from a wait that has returned or will return at
\* once), or it is the last thief about to call notify_one.
Compensating(w) ==
  \/ pc[w] \in {"wake_up", "rt_notify"}
  \/ pc[w] = "wait" /\ stale[w]
  \/ pc[w] = "parked" /\ w \in woken

\* --------------------------------------------------------------- claims

Held(h) ==
  LET n[w \in 0..NWorkers] ==
        IF w = 0 THEN 0
        ELSE n[w - 1] + Count(inbox[w], h) + Count(cur[w], h)
  IN  n[NWorkers]

\* C2 (as claimed): when the destructor returns every scheduled handle has
\* been resumed exactly once, whenever clean_up ran.
C2_ResumedOnceAtReturn ==
  cleanPc = "done" => \A h \in 1..scheduled : resumed[h] = 1

\* C2 (amended): a scheduled handle is resumed at most once and is never
\* dropped (until it is resumed an inbox or a running chain holds it, once);
\* when the destructor returns it has been resumed exactly once provided
\* clean_up began after every scheduled handle had completed.
C2_Conservation ==
  \A h \in 1..scheduled :
    /\ resumed[h] <= 1
    /\ resumed[h] = 0 => Held(h) = 1
    /\ h \in done => resumed[h] = 1 /\ Held(h) = 0
    /\ (cleanPc = "done" /\ ~early) => resumed[h] = 1

\* C2 witness: the destructor has returned from a clean_up that began after
\* the handles had completed, one of them run from a batch of two.
C2_Witness ==
  /\ cleanPc = "done" /\ ~early
  /\ scheduled = MaxHandles
  /\ \A h \in 1..scheduled : resumed[h] = 1

\* Worker k's inbox holds a batch whose submit has returned.
Submitted(k) == inbox[k] # <<>> /\ ~(subPc = "notify" /\ subTarget = k)

\* C3: no lost wakeup.  A worker whose inbox holds a submitted batch is not
\* blocked in wait unwoken, and if it is past its re-check on the way to
\* wait, the epoch has left its key, so that its wait returns at once.
C3_NoLostWakeup ==
  \A k \in Workers : Submitted(k) =>
    /\ pc[k] = "parked" => k \in woken
    /\ pc[k] \in {"stop_check", "park_dec", "wait"} => stale[k]

\* C3 witness: a submit raced with worker k's park attempt; k is inside wait
\* with the batch in its inbox, woken by the notify_all.
C3_Witness ==
  \E k \in Workers :
    /\ inbox[k] # <<>> /\ subPc = "idle" /\ ~stop
    /\ pc[k] = "parked" /\ k \in woken

\* C5: the lanes are non-negative and T + A <= N, so that S is a count
\* between 0 and N, also after workers have exited through the stop path.
C5_CounterBounds == LanesSmall /\ T + A <= NWorkers /\ S \in 0..NWorkers

\* C5 witness: every worker has exited and is still counted as a thief.
C5_Witness ==
  /\ \A w \in Workers : Exited(w)
  /\ T = NWorkers /\ A = 0 /\ S = 0

C4_ShutdownLiveness ==
  stop ~> (cleanPc = "done" /\ \A w \in Workers : Exited(w))

\* C4 witness: the destructor has returned and every worker has exited, with
\* no spurious wake-up and no submission having helped them out of wait.
C4_Witness ==
  /\ cleanPc = "done"
  /\ \A w \in Workers : Exited(w)
  /\ spurious = 0 /\ scheduled = 0

\* No submission is under way, nothing scheduled is unfinished, and the pool
\* is not being destroyed.
Quiet ==
  /\ ~stop
  /\ subPc = "idle"
  /\ \A h \in 1..scheduled : h \in done
  /\ \A w \in Workers : cur[w] = <<>> /\ deque[w] = <<>>

AllParked ==
  /\ \A w \in Workers : pc[w] = "parked" /\ w \notin woken
  /\ dual_count = Zero64

\* C6: quiescent parking.  If from some point on nothing is submitted, nothing
\* is unfinished and stop is not set, then from some point on every worker is
\* blocked in wait, with T = 0 and A = 0.
C6_QuiescentParking == <>[]Quiet => <>[]AllParked

\* C6 witness: every worker is parked after the handles have completed.
C6_Witness ==
  /\ Quiet /\ AllParked
  /\ scheduled = MaxHandles

\* The worker that holds handle h in its inbox or in its running chain.
Holder(h) ==
  CHOOSE w \in Workers : h \in Range(inbox[w]) \cup Range(cur[w])

\* C7: parked-then-awoken.  A handle scheduled while all N workers are parked
\* (S = N) is eventually resumed to completion, by a worker that goes from
\* Parked to Thieving (it wakes and takes the handle on the fast path), to
\* Active (it resumes the handle after its promotion) and to Thieving again
\* (its demotion).
C7_ParkedThenAwoken ==
  /\ \A h \in Handles : (h \in cold) ~> (h \in done)
  /\ [](\A h \in cold :
          /\ Held(h) = 1
          /\ h \in Range(inbox[Holder(h)]) =>
               pc[Holder(h)] \in {"parked", "wake_up", "fast_sub"}
          /\ h \in Range(cur[Holder(h)]) =>
               pc[Holder(h)] = "promote" \/ Active(Holder(h))
          /\ resumed[h] = 1 => Active(Holder(h)))
  /\ [][\A w \in Workers : (Active(w) /\ ~Active(w)') => Thieving(w)']_vars

\* C7 witness: a worker that was parked when the handle was scheduled is
\* Active, running it.
C7_Witness ==
  \E w \in Workers :
    /\ pc[w] = "running"
    /\ Head(cur[w]) \in cold
    /\ \A v \in Workers \ {w} : pc[v] = "parked"

\* C9: misuse detection.  A second worker_init without a finalize in between,
\* a finalize with a context that is not the thread's own, a finalize without
\* a prior worker_init and a second finalize each end in the thrown
\* runtime_error and construct and destroy nothing.
C9_MisuseDetected ==
  LET misuse == tlsRet = "runtime_error" /\ tlsEvents = <<>>
  IN  /\ (tlsOp[1] = "worker_init" /\ tlsBefore = "worker_init") => misuse
      /\ (tlsOp[1] = "finalize" /\ ~tlsOp[2]) => misuse
      /\ (tlsOp[1] = "finalize" /\ tlsBefore = "none") => misuse
      /\ (tlsOp[1] = "finalize" /\ tlsBefore = "finalize") => misuse

\* C9 witness: a second finalize, with the thread's own context, after a
\* finalize that succeeded.
C9_Witness ==
  /\ tlsOp = <<"finalize", TRUE>>
  /\ tlsBefore = "finalize"
  /\ tlsRet = "runtime_error"
  /\ ~tlsUB

\* C10: when the fibre's constructor fails in worker_init, the context is
\* destroyed and the error is rethrown: no context pointer is returned and
\* has_fibre and has_context stay false.
C10_FibreFailureRethrown ==
  (tlsOp[1] = "worker_init" /\ "fibre throws" \in Range(tlsEvents)) =>
    /\ thread_context = "empty"
    /\ tlsRet = "rethrown"
    /\ ~has_fibre /\ ~has_context

\* C11 (as claimed): after any sequence of worker_init and finalize calls the
\* guards has_context and has_fibre are true exactly when the respective
\* object is alive, and no destroy() has hit an object that was not alive.
C11_GuardsMatchLifetime ==
  /\ has_context <=> thread_context = "live"
  /\ has_fibre <=> thread_fibre = "live"
  /\ ~tlsUB

\* C12: batch order.  The chain a worker has taken is resumed head first, one
\* handle at a time (no later element has been resumed while an earlier one
\* is still in the chain), by that worker, between one promotion and one
\* demotion: the chain only ever loses its head, when the head's resume has
\* returned, and the demotion comes when the chain is empty.
C12_BatchOrder ==
  /\ [](\A w \in Workers : cur[w] # <<>> =>
          /\ pc[w] = "promote" \/ Active(w)
          /\ \A i \in 2..Len(cur[w]) : resumed[cur[w][i]] = 0
          /\ resumed[Head(cur[w])] = IF pc[w] = "running" THEN 1 ELSE 0)
  /\ [][\A w \in Workers :
          /\ cur'[w] # cur[w] =>
               \/ /\ cur[w] = <<>> /\ Thieving(w)
                  /\ pc'[w] = "promote"
                  /\ cur'[w] = inbox[w] \/ Len(cur'[w]) = 1
               \/ /\ pc[w] = "running" /\ pc'[w] = "resume"
                  /\ cur'[w] = Tail(cur[w])
                  /\ Head(cur[w]) \in done'
          /\ (Active(w) /\ ~Active(w)') => cur[w] = <<>>]_vars

\* C12 witness: a worker is running the head of a chain of two handles, the
\* second of them not yet resumed.
C12_Witness ==
  \E w \in Workers :
    /\ pc[w] = "running"
    /\ Len(cur[w]) = 2
    /\ resumed[cur[w][1]] = 1 /\ resumed[cur[w][2]] = 0

\* C13 (as claimed): worker_init constructs the context and then the fibre,
\* and a finalize that destroys them destroys the fibre before the context.
C13_ReverseDestruction ==
  /\ (tlsOp[1] = "worker_init" /\ "construct fibre" \in Range(tlsEvents)) =>
       tlsEvents = <<"construct context", "construct fibre">>
  /\ (tlsOp[1] = "finalize" /\ tlsEvents # <<>>) =>
       tlsEvents = <<"destroy fibre", "destroy context">>

\* C14 (as claimed): a pending prepare_wait is cancelled or consumed on every
\* path out of the park attempt, so that a worker holds a wait intent only
\* inside the attempt, from prepare_wait to the return of cancel_wait or
\* wait, and never at the enter-thieving increment, on the fast path, while
\* working or at the next prepare_wait.
C14_IntentResolved ==
  \A w \in Workers :
    intent[w] =>
      pc[w] \in {"recheck", "stop_check", "park_dec", "wait", "parked"}

\* A worker is blocked in wait or has decremented T and is about to call it.
SomeSleeper == \E w \in Workers : pc[w] \in {"wait", "parked"}

\* C15: fresh searcher.  Whenever A > 0 and T = 0 while some worker is parked
\* or committed to parking, eventually T >= 1 again or A = 0, under fair
\* scheduling of the workers, also when the running tasks never finish.
C15_FreshSearcher ==
  (A > 0 /\ T = 0 /\ SomeSleeper) ~> (T >= 1 \/ A = 0)

\* C15 witness: the last thief's promotion has left A > 0 and T = 0 while a
\* worker is blocked in wait, unwoken; the notify_one is about to be called.
C15_Witness ==
  /\ A > 0 /\ T = 0
  /\ \E v \in Workers : pc[v] = "rt_notify"
  /\ \E w \in Workers : pc[w] = "parked" /\ w \notin woken

\* C16: park abort.  A worker whose park decrement reads prior T = 1 and
\* prior A # 0 does not call wait for that attempt: it goes to wake_up, where
\* its next step re-increments T.  A worker whose decrement reads anything
\* else goes on to wait, and wait is called from nowhere else.
C16_ParkAbort ==
  [][\A w \in Workers :
       /\ (pc[w] = "park_dec" /\ pc'[w] # "park_dec") =>
            /\ dual_count' = Sub64(dual_count, k_thieve)
            /\ pc'[w] = IF T = 1 /\ A # 0 THEN "wake_up" ELSE "wait"
       /\ (pc[w] # "wait" /\ pc'[w] = "wait") =>
            pc[w] = "park_dec" /\ (T > 1 \/ A = 0)
       /\ (pc[w] = "wake_up" /\ pc'[w] # "wake_up") =>
            /\ pc'[w] = "fast_sub"
            /\ dual_count' = Add64(dual_count, k_thieve)]_vars

\* C16 witness: a worker has aborted its park attempt (its prepare_wait is
\* still pending) and stands at wake_up while a task is active.
C16_Witness ==
  /\ A > 0 /\ T = 0
  /\ \E w \in Workers : pc[w] = "wake_up" /\ intent[w]

\* C17: last-thief wake.  A promotion that reads prior T = 1 is followed by
\* notify_one (a new epoch, one blocked waiter woken) before the handle is
\* resumed; a promotion that reads prior T > 1 goes straight to the resume
\* and touches no waiter; the demotion touches no waiter.
C17_LastThiefWake ==
  [][\A w \in Workers :
       /\ (pc[w] = "promote" /\ pc'[w] # "promote") =>
            /\ pc'[w] = IF T = 1 THEN "rt_notify" ELSE "resume"
            /\ woken' = woken /\ stale' = stale /\ resumed' = resumed
       /\ (pc[w] = "rt_notify" /\ pc'[w] # "rt_notify") =>
            /\ pc'[w] = "resume"
            /\ resumed' = resumed
            /\ \A v \in Holding : stale'[v]
            /\ Blocked # {} => \E v \in Blocked : woken' = woken \cup {v}
       /\ (pc[w] # "running" /\ pc'[w] = "running") => pc[w] = "resume"
       /\ (pc[w] = "resume" /\ ~Active(w)') =>
            /\ dual_count' = Sub64(dual_count, k_promote)
            /\ woken' = woken /\ stale' = stale]_vars

\* C17 witness: the last thief has called notify_one and is about to resume
\* its handle; the other worker, blocked in wait, has been woken.
C17_Witness ==
  /\ A > 0 /\ T = 0 /\ subPc = "idle" /\ ~stop
  /\ \E w \in Workers :
       /\ pc[w] = "resume" /\ cur[w] # <<>> /\ resumed[Head(cur[w])] = 0
       /\ \E v \in Workers \ {w} : pc[v] = "parked" /\ v \in woken

\* How many workers are in each of the scheduler states.
NumThieving == Cardinality({w \in Workers : Thieving(w)})

NumActive == Cardinality({w \in Workers : Active(w)})

NumExited == Cardinality({w \in Workers : Exited(w)})

\* C18 (as claimed): in every reachable state the T lane is the number of
\* Thieving workers and the A lane is the number of Active workers.
C18_CounterMatchesStates ==
  LanesSmall /\ T = NumThieving /\ A = NumActive

\* C18 (amended): the A lane is the number of Active workers and the T lane
\* is the number of Thieving workers plus the number of workers that have
\* exited through the stop path; a handle is resumed only by a worker that is
\* Active, counted in A.
C18_CounterMatchesWithGhosts ==
  /\ [](LanesSmall /\ T = NumThieving + NumExited /\ A = NumActive)
  /\ [][resumed' # resumed =>
          \E w \in Workers : Active(w) /\ Active(w)' /\ A >= 1]_vars

\* C18 witness: one worker has exited on stop and stays counted in T while
\* the other is Active, resuming a handle.
C18_Witness ==
  /\ T = 1 /\ A = 1
  /\ \E w \in Workers : Exited(w)
  /\ \E v \in Workers : pc[v] = "running"

\* C19: packed-lane arithmetic.  The addend k_active - k_thieve is 2^32 - 1;
\* added modulo 2^64 to a word whose T lane is at least 1 it gives exactly
\* (A + 1, T - 1), and subtracted again it gives back (A, T).  Every
\* promotion and every park decrement is applied with the T lane at least 1
\* and every demotion with the A lane at least 1, so that no lane borrows
\* from or carries into the other beyond the intended transfer.
C19_PackedLanes ==
  /\ [](/\ k_promote = <<Base - 1, Base - 1, 0, 0>>
        /\ \A t \in 1..NWorkers, a \in 0..(NWorkers - 1) :
             /\ Add64(<<t, 0, a, 0>>, k_promote) = <<t - 1, 0, a + 1, 0>>
             /\ Sub64(<<t - 1, 0, a + 1, 0>>, k_promote) = <<t, 0, a, 0>>)
  /\ [][\A w \in Workers :
          /\ (pc[w] = "promote" /\ pc'[w] # "promote") =>
               /\ LanesSmall /\ T >= 1
               /\ LanesSmall' /\ T' = T - 1 /\ A' = A + 1
          /\ (pc[w] = "resume" /\ ~Active(w)') =>
               /\ LanesSmall /\ A >= 1
               /\ LanesSmall' /\ T' = T + 1 /\ A' = A - 1
          /\ (pc[w] = "park_dec" /\ pc'[w] # "park_dec") =>
               /\ LanesSmall /\ T >= 1
               /\ LanesSmall' /\ T' = T - 1 /\ A' = A]_vars

\* C19 witness: every worker has been promoted; the T lane is back at 0 and
\* the A lane holds them all.
C19_Witness == dual_count = <<0, 0, NWorkers, 0>>

\* C20: exit condition.  A worker exits only from the stop check of a park
\* attempt, with stop set, its prepare_wait made and its own inbox found
\* empty at the re-check of that attempt; a worker whose re-check finds a
\* batch takes it, cancels the wait and goes through the round trip back to
\* the fast path, whether or not stop is set; no worker exits while Active.
C20_ExitCondition ==
  [][\A w \in Workers :
       /\ (~Exited(w) /\ Exited(w)') =>
            pc[w] = "stop_check" /\ stop /\ intent[w] /\ ~Active(w)
       /\ (pc[w] # "stop_check" /\ pc'[w] = "stop_check") =>
            pc[w] = "recheck" /\ inbox[w] = <<>>
       /\ (pc[w] # "recheck" /\ pc'[w] = "recheck") =>
            pc[w] = "prepare" /\ intent'[w]
       /\ (pc[w] = "recheck" /\ inbox[w] # <<>> /\ pc'[w] # "recheck") =>
            /\ pc'[w] = "promote"
            /\ cur'[w] = inbox[w] /\ inbox'[w] = <<>>
            /\ ~intent'[w]
       /\ (Active(w) /\ ~Active(w)') => pc'[w] = "fast_sub"]_vars

\* C20 witness: stop is set and a worker stands at its re-check with a batch
\* in its inbox.
C20_Witness ==
  /\ stop
  /\ \E w \in Workers : pc[w] = "recheck" /\ inbox[w] # <<>> /\ intent[w]

\* C21: ghost thief.  The exit taken on observing stop cancels the pending
\* wait and leaves the dual counter as it is, so that the T lane still counts
\* every worker that has exited and the A lane is not touched.
C21_GhostThief ==
  /\ [](LanesSmall /\ T >= NumExited)
  /\ [][\A w \in Workers :
          (~Exited(w) /\ Exited(w)') =>
            /\ stop
            /\ intent[w] /\ ~intent'[w]
            /\ dual_count' = dual_count]_vars

\* C21 witness: one worker has exited and the other is still searching; the
\* T lane counts them both.
C21_Witness ==
  /\ T = NWorkers /\ A = 0
  /\ NumExited = 1
  /\ \E v \in Workers : pc[v] \in {"fast_sub", "fast_steal", "prepare"}

====
